---- MODULE Spec2Model ----
(***************************************************************************)
(* Model of the movement-intent resolver of rustac                         *)
(* (src/src/gamestate/movement.rs) and of the entity/component storage     *)
(* core described in spec.md sections 3 and 4.                             *)
(*                                                                         *)
(* Numbers.  The code computes on f64.  The model computes on a binary     *)
(* fixed-point grid: the integer n stands for the real n / One, with       *)
(* One = 2^28.  Every arithmetic result is rounded to the grid, as the     *)
(* code's results are rounded to f64; decimal literals such as 0.1 or 1e-7 *)
(* are not on the grid and are rounded to it, as rustc rounds them to f64. *)
(* The grid is coarser than f64 (2^-28 instead of 2^-52 at 1.0) but is     *)
(* still 27 times finer than PRECISION, so the three magnitudes the        *)
(* code plays against each other (rounding noise << PRECISION << 1.0)      *)
(* keep their order.                                                       *)
(***************************************************************************)
EXTENDS Integers, Sequences, FiniteSets, TLC

\* f64 1.0 in grid units (2^28).
One == 268435456

\* crate::UPDATES_PER_SECOND (imported at movement.rs:6, defined in the crate
\* root); spec.md section 8 uses 10 ticks per second.
UPDATES_PER_SECOND == 10

\* ---- bounds of the model ----
\* move_from calls per behaviour
MaxTicks == 11
\* generations per allocator slot
MaxGen == 2
\* allocator slots
MaxSlots == 2

\* ---- f64 primitives on the grid ----
Abs(v) == IF v < 0 THEN -v ELSE v

Sgn(v) == IF v < 0 THEN -1 ELSE IF v > 0 THEN 1 ELSE 0

\* a / b rounded to the nearest grid value (ties away from zero), b > 0
RoundDiv(a, b) ==
    Sgn(a) * ((Abs(a) \div b) + (IF (Abs(a) % b) >= b - (Abs(a) % b) THEN 1 ELSE 0))

\* const PRECISION: f64 = 0.0000001, rounded to the grid
PRECISION == RoundDiv(One, 10000000)

\* f64::trunc: the integer part, rounding toward zero
trunc(v) == Sgn(v) * ((Abs(v) \div One) * One)

\* f64::round: the nearest integer, ties away from zero
round(v) == Sgn(v) * (((Abs(v) + One \div 2) \div One) * One)

\* The NaN that 0.0 / 0.0 yields, encoded outside the range of the grid
\* values the model reaches.
NaN == -(7 * One) - 1

\* f64::min: if one argument is NaN the other is returned
fmin(a, b) == IF a = NaN THEN b ELSE IF b = NaN THEN a ELSE IF a < b THEN a ELSE b

\* qr = <<q, r>> with r < c becomes <<q', r'>> with q' * c + r' = q * c + r + a1,
\* for 0 <= a1 <= c, without forming a number above c
AddRem(qr, a1, c) ==
    IF qr[2] >= c - a1 THEN <<qr[1] + 1, qr[2] - (c - a1)>> ELSE <<qr[1], qr[2] + a1>>

\* h = <<q, r>> with q * c + r = n becomes <<q', r'>> with
\* q' * c + r' = 2 * n + a1, for 0 <= a1 <= c, without forming a number above c
Double(h, a1, c) ==
    IF h[2] >= c - h[2]
    THEN AddRem(<<2 * h[1] + 1, h[2] - (c - h[2])>>, a1, c)
    ELSE AddRem(<<2 * h[1], h[2] + h[2]>>, a1, c)

\* <<q, r>> with a * b = q * c + r and 0 <= r < c, for 0 <= a <= c and a
\* small b >= 0, computed bit by bit of b so that no intermediate exceeds c.
\* Each partial result is bound as a value before it is used.
RECURSIVE MulDivBits(_, _, _)
MulDivBits(a, b, c) ==
    IF b = 0 THEN <<0, 0>>
    ELSE CHOOSE qr \in { Double(h, (b % 2) * a, c) : h \in { MulDivBits(a, b \div 2, c) } } : TRUE

\* the digits of b are taken seven bits at a time
Chunk == 2 ^ 7

\* h = <<q, r>> with q * c + r = n and l = <<ql, rl>> with ql * c + rl = m
\* become <<q', r'>> with q' * c + r' = n * Chunk + m
Shift(h, l, c) ==
    IF h[2] = 0
    THEN <<h[1] * Chunk + l[1], l[2]>>
    ELSE CHOOSE qr \in { AddRem(<<h[1] * Chunk + s[1] + l[1], s[2]>>, l[2], c) :
                           s \in { MulDivBits(h[2], Chunk, c) } } : TRUE

\* <<q, r>> with a * b = q * c + r and 0 <= r < c, for 0 <= a <= c, b >= 0:
\* long multiplication over the base-Chunk digits of b.
RECURSIVE MulDivQR(_, _, _)
MulDivQR(a, b, c) ==
    IF b < Chunk THEN MulDivBits(a, b, c)
    ELSE CHOOSE qr \in { Shift(h, l, c) : h \in { MulDivQR(a, b \div Chunk, c) },
                                          l \in { MulDivBits(a, b % Chunk, c) } } : TRUE

\* part.abs() / (x.abs() + y.abs()) * step  (movement.rs:69-70): the share of
\* the step an axis gets.  0.0 / 0.0 is NaN and NaN * step is NaN; a ratio of
\* exactly 1.0 or 0.0 gives step or 0.0 exactly; otherwise the product is
\* rounded to the grid.
axis_step(part, total, step) ==
    IF total = 0 THEN NaN
    ELSE IF part = total THEN step
    ELSE IF part = 0 THEN 0
    ELSE CHOOSE v \in { Sgn(step) * (qr[1] + (IF qr[2] >= total - qr[2] THEN 1 ELSE 0)) :
                           qr \in { MulDivQR(part, Abs(step), total) } } : TRUE

\* ---- MoveIntent (movement.rs:23-26) ----
Vec(x, y) == [x |-> x, y |-> y]

Vector(movement_vec, speed) == [kind |-> "Vector", vec |-> movement_vec, speed |-> speed]

Position(target_location, speed) == [kind |-> "Position", vec |-> target_location, speed |-> speed]

\* movement.rs:65-66: the sign of an axis, 0.0 for a zero component
direction(v) == IF v = 0 THEN 0 ELSE v \div Abs(v)

\* clamp_step without the clamp: the step an axis gets is taken whole, however
\* little of the path is left
unclamped_step(raw_step, dist) == IF raw_step = NaN THEN 0 ELSE raw_step

\* movement.rs:73-74: do not move too far, if a step is bigger than the distance left
clamp_step(raw_step, dist) == fmin(raw_step, Abs(dist))

\* movement.rs:80-86: a rest of the path shorter than the precision becomes 0
new_intent(rest) == IF Abs(rest) < PRECISION THEN 0 ELSE rest

\* movement.rs:96-101 (x) and 103-108 (y): the rounding correction of a new coordinate
truncating(new_c) ==
    IF Abs(new_c) - Abs(trunc(new_c)) < PRECISION /\ new_c > trunc(new_c)
    THEN round(new_c)
    ELSE IF Abs(new_c) - Abs(trunc(new_c + PRECISION)) < PRECISION
         THEN round(new_c)
         ELSE new_c

\* movement.rs:76-114: what the Vector arm does with the two clamped steps
take_steps(movement_vec, speed, location, x_step, y_step) ==
    LET x_direction == direction(movement_vec.x)
        y_direction == direction(movement_vec.y)
        new_x       == location.x + x_step * x_direction
        new_y       == location.y + y_step * y_direction
    IN  [intent   |-> Vector(Vec(new_intent(movement_vec.x - x_step * x_direction),
                                 new_intent(movement_vec.y - y_step * y_direction)), speed),
         location |-> Vec(truncating(new_x), truncating(new_y)),
         raw      |-> Vec(new_x, new_y)]

\* movement.rs:61-115: the Vector arm of move_from.  Returns the intent as the
\* call leaves it, the location the call returns and, for the claims about
\* the rounding correction, the coordinates before that correction.  The two
\* steps are computed once and bound, as the code's let bindings are.
move_vector(movement_vec, speed, location) ==
    LET step  == RoundDiv(speed, UPDATES_PER_SECOND)
        total == Abs(movement_vec.x) + Abs(movement_vec.y)
    IN  CHOOSE r \in { take_steps(movement_vec, speed, location,
                                  clamp_step(x_step, movement_vec.x),
                                  clamp_step(y_step, movement_vec.y)) :
                         x_step \in { axis_step(Abs(movement_vec.x), total, step) },
                         y_step \in { axis_step(Abs(movement_vec.y), total, step) } } : TRUE

\* move_from with the Position arm storing the temporary Vector intent in self
move_from_storing_dummy(self, location) ==
    IF self.kind = "Position"
    THEN move_vector(Vec(self.vec.x - location.x, self.vec.y - location.y), self.speed, location)
    ELSE move_vector(self.vec, self.speed, location)

\* movement.rs:50-117: MoveIntent::move_from.  A Position intent is mapped to
\* a temporary Vector intent; the Position intent itself is not written.
move_from(self, location) ==
    IF self.kind = "Position"
    THEN LET distance_vector == Vec(self.vec.x - location.x, self.vec.y - location.y)
         IN  [move_vector(distance_vector, self.speed, location) EXCEPT !.intent = self]
    ELSE move_vector(self.vec, self.speed, location)

\* has_arrived with the Position arm comparing within the tolerance
has_arrived_within_tolerance(self, current_location) ==
    IF self.kind = "Position"
    THEN /\ Abs(current_location.x - self.vec.x) < PRECISION
         /\ Abs(current_location.y - self.vec.y) < PRECISION
    ELSE self.vec.x = 0 /\ self.vec.y = 0

\* movement.rs:127-136: MoveIntent::has_arrived
has_arrived(self, current_location) ==
    IF self.kind = "Position"
    THEN current_location.x = self.vec.x /\ current_location.y = self.vec.y
    ELSE self.vec.x = 0 /\ self.vec.y = 0

\* movement.rs:146-154: MoveIntent::target_goal
target_goal(self, current_location) ==
    IF self.kind = "Position"
    THEN self.vec
    ELSE Vec(current_location.x + self.vec.x, current_location.y + self.vec.y)

\* ---- the update loop around one MoveIntent ----
VARIABLES
    intent,      \* the caller-owned MoveIntent
    location,    \* the location the caller keeps writing back
    ticks,       \* move_from calls made so far
    intent0,     \* the intent as constructed
    location0,   \* the location before the first call
    prev,        \* the last move_from call: its arguments and unrounded result
    query        \* the last has_arrived / target_goal call: argument and result

\* ---- the World: one allocator and one store per component type ----
VARIABLES
    generations, \* allocator: slot index -> current generation
    free,        \* allocator: the free list of reusable indices
    stores,      \* store name -> (slot index -> component value or None)
    issued,      \* every Entity spawn has returned so far
    despawned    \* every Entity a despawn has succeeded on

mvars == <<intent, location, ticks, intent0, location0, prev, query>>

evars == <<generations, free, stores, issued, despawned>>

vars == <<intent, location, ticks, intent0, location0, prev, query,
          generations, free, stores, issued, despawned>>

\* no has_arrived / target_goal call yet
NoQuery == [op |-> "none", arg |-> Vec(0, 0), result |-> FALSE]

\* ---- Entity, Entity Allocator, Component Store, World (spec.md 3, 4.1-4.3) ----
Entity(index, generation) == [index |-> index, generation |-> generation]

None == "None"

StaleEntity == "StaleEntity"

Ok == "Ok"

\* the component stores of the World (render/mod.rs reads these two)
StoreNames == { "location_component", "render_component" }

\* component values
Values == { "a", "b" }

Slots == 1 .. MaxSlots

\* Allocator.is_live: generation comparison
is_live(gens, e) == e.index \in 1 .. Len(gens) /\ gens[e.index] = e.generation

\* Allocator.create: pops an index from the free list, reusing its existing
\* generation, or appends a new slot with generation 0.  The free list
\* promises no order, so any free index may be the one popped.
create(gens, fr) ==
    IF fr # {}
    THEN { [generations |-> gens, free |-> fr \ {i}, entity |-> Entity(i, gens[i])] : i \in fr }
    ELSE { [generations |-> Append(gens, 0), free |-> fr, entity |-> Entity(Len(gens) + 1, 0)] }

\* Allocator.destroy: StaleEntity if the generations differ; otherwise the
\* slot's generation is incremented and the index returned to the free list.
destroy(gens, fr, e) ==
    IF ~is_live(gens, e)
    THEN [generations |-> gens, free |-> fr, result |-> StaleEntity]
    ELSE [generations |-> [gens EXCEPT ![e.index] = @ + 1],
          free |-> fr \cup {e.index}, result |-> Ok]

\* Store.insert: StaleEntity if e is not live; otherwise stores the value and
\* returns the previous one.
insert(store, gens, e, value) ==
    IF ~is_live(gens, e)
    THEN [store |-> store, result |-> StaleEntity]
    ELSE [store |-> [store EXCEPT ![e.index] = value], result |-> store[e.index]]

\* Store.remove: returns and clears the value; does not check liveness.
remove(store, e) ==
    [store |-> [store EXCEPT ![e.index] = None], result |-> store[e.index]]

\* get without the liveness check: whatever the slot of e.index holds
get_by_index(store, gens, e) == store[e.index]

\* Store.get / Store.get_mut: none if e is stale or has no value.
get(store, gens, e) == IF is_live(gens, e) THEN store[e.index] ELSE None

\* World.despawn: Allocator.destroy, then remove on every registered store.
despawn(gens, fr, sts, e) ==
    LET d == destroy(gens, fr, e)
    IN  IF d.result = StaleEntity
        THEN [generations |-> gens, free |-> fr, stores |-> sts, result |-> StaleEntity]
        ELSE [generations |-> d.generations, free |-> d.free,
              stores |-> [n \in StoreNames |-> remove(sts[n], e).store], result |-> Ok]

InitWorld ==
    /\ generations = <<>>
    /\ free = {}
    /\ stores = [n \in StoreNames |-> [i \in Slots |-> None]]
    /\ issued = {}
    /\ despawned = {}

\* World.spawn
Spawn ==
    /\ free # {} \/ Len(generations) < MaxSlots
    /\ \E c \in create(generations, free) :
          /\ generations' = c.generations
          /\ free' = c.free
          /\ issued' = issued \cup {c.entity}
    /\ UNCHANGED <<stores, despawned, mvars>>

\* World.despawn(e), for any Entity value a caller may still hold
Despawn ==
    /\ \E e \in issued :
          /\ is_live(generations, e) => e.generation < MaxGen
          /\ \E r \in { despawn(generations, free, stores, e) } :
                /\ generations' = r.generations
                /\ free' = r.free
                /\ stores' = r.stores
                /\ despawned' = IF r.result = Ok THEN despawned \cup {e} ELSE despawned
    /\ UNCHANGED <<issued, mvars>>

\* store.insert(e, value)
Insert ==
    /\ \E n \in StoreNames, e \in issued, value \in Values :
          stores' = [stores EXCEPT ![n] = insert(stores[n], generations, e, value).store]
    /\ UNCHANGED <<generations, free, issued, despawned, mvars>>

\* store.remove(e)
Remove ==
    /\ \E n \in StoreNames, e \in issued :
          stores' = [stores EXCEPT ![n] = remove(stores[n], e).store]
    /\ UNCHANGED <<generations, free, issued, despawned, mvars>>

\* store.get_mut(e), and the caller writing through the reference it got; a
\* get_mut that returns none, like every get, leaves the store as it is
GetMut ==
    /\ \E n \in StoreNames, e \in issued, value \in Values :
          stores' = IF get(stores[n], generations, e) = None
                    THEN stores
                    ELSE [stores EXCEPT ![n][e.index] = value]
    /\ UNCHANGED <<generations, free, issued, despawned, mvars>>

\* the World spec runs beside one idle intent
InitEcs ==
    /\ InitWorld
    /\ intent0 = Vector(Vec(0, 0), One)
    /\ location0 = Vec(0, 0)
    /\ intent = intent0
    /\ location = location0
    /\ ticks = 0
    /\ prev = [called |-> FALSE, intent |-> intent0, location |-> location0, raw |-> location0]
    /\ query = NoQuery

EcsNext == Spawn \/ Despawn \/ Insert \/ Remove \/ GetMut

EcsSpec == InitEcs /\ [][EcsNext]_vars

\* ---- inputs of the update loop ----
\* half the tolerance: 5e-8
Eps == PRECISION \div 2

\* a third of the tolerance
Tiny == PRECISION \div 3

\* a decimal literal k / 10 rounded to the grid
Tenths(k) == RoundDiv(k * (One \div 2), 5)

\* displacements of Vector intents and targets of Position intents
Vecs ==
    { Vec(One, 0), Vec(5 * One, 0), Vec(One + Eps, 0), Vec(One - Eps, 0),
      Vec(Tiny, 0), Vec(0, 0), Vec(One, One), Vec(-One, Tenths(5)),
      Vec(0, -One), Vec(Tenths(8), 0), Vec(Eps - One, -One - Eps) }

\* speeds, in fields per second: DEFAULT_SPEED (movement.rs:9), the tests'
\* 1.0 and two speeds off the whole numbers
Speeds == { 5 * One, One, One + Eps, Tiny }

\* speeds the data model excludes and the code accepts: zero and a negative one
NonPositiveSpeeds == { 0, -(One \div 2) }

\* starting locations
Starts == { Vec(0, 0), Vec(One - Eps, 0), Vec(Eps - One, -One - Eps), Vec(One + Eps, -Eps) }

\* arguments of has_arrived: the caller's location, the intent's vector, and
\* two locations within the tolerance of it
Probes == { location, intent.vec, Vec(intent.vec.x + 1, intent.vec.y),
            Vec(intent.vec.x, intent.vec.y - Eps) }

\* arguments of target_goal: the caller's location and three other locations
GoalProbes == { location, location0, Vec(0, 0), Vec(Eps - One, One) }

InitMove(speeds) ==
    /\ intent0 \in { Vector(v, s) : v \in Vecs, s \in speeds }
                   \cup { Position(v, s) : v \in Vecs, s \in speeds }
    /\ location0 \in Starts
    /\ intent = intent0
    /\ location = location0
    /\ ticks = 0
    /\ prev = [called |-> FALSE, intent |-> intent0, location |-> location0, raw |-> location0]
    /\ query = NoQuery

\* location = intent.move_from(&location)   (movement.rs:179-180, the loop of
\* tests::move_vector; spec.md section 2, data flow)
Tick ==
    /\ ticks < MaxTicks
    /\ \E r \in { move_from(intent, location) } :
          /\ intent' = r.intent
          /\ location' = r.location
          /\ prev' = [called |-> TRUE, intent |-> intent, location |-> location, raw |-> r.raw]
    /\ ticks' = ticks + 1
    /\ query' = NoQuery
    /\ UNCHANGED <<intent0, location0, evars>>

\* intent.has_arrived(&probe)
HasArrived ==
    /\ \E probe \in Probes :
          query' = [op |-> "has_arrived", arg |-> probe, result |-> has_arrived(intent, probe)]
    /\ UNCHANGED <<intent, location, ticks, intent0, location0, prev, evars>>

\* intent.target_goal(&probe)
TargetGoal ==
    /\ \E probe \in GoalProbes :
          query' = [op |-> "target_goal", arg |-> probe, result |-> target_goal(intent, probe)]
    /\ UNCHANGED <<intent, location, ticks, intent0, location0, prev, evars>>

Init == InitMove(Speeds) /\ InitWorld

Next == Tick \/ HasArrived \/ TargetGoal

\* intents as the data model allows them: positive speed
Spec == Init /\ [][Next]_vars

InitAnySpeed == InitMove(NonPositiveSpeeds) /\ InitWorld

\* intents with the speeds the caller is supposed to rule out
SpecAnySpeed == InitAnySpeed /\ [][Next]_vars

\* ---- the loop that never stops calling move_from ----
\* the speeds at which the farthest target is a few dozen ticks away
LoopSpeeds == Speeds \ {Tiny}

InitPosition ==
    /\ InitMove(LoopSpeeds)
    /\ InitWorld
    /\ intent0.kind = "Position"

\* Tick without the bound on the number of calls: the counter wraps
FairTick ==
    /\ \E r \in { move_from(intent, location) } :
          /\ intent' = r.intent
          /\ location' = r.location
          /\ prev' = [called |-> TRUE, intent |-> intent, location |-> location, raw |-> r.raw]
    /\ ticks' = (ticks + 1) % (MaxTicks + 1)
    /\ UNCHANGED <<intent0, location0, query, evars>>

FairNext == FairTick

\* the update loop calls move_from once per tick for as long as the game runs
FairSpec == InitPosition /\ [][FairNext]_vars /\ WF_vars(FairTick)

\* ---- claims about move_from, has_arrived and target_goal ----

\* d * UPDATES_PER_SECOND / s when that is a whole number, 0 otherwise
\* (d >= 0, s > 0; computed without forming d * UPDATES_PER_SECOND)
TicksToArrive(d, s) ==
    LET q  == d \div s
        r  == d % s
        a  == s \div UPDATES_PER_SECOND
        b  == s % UPDATES_PER_SECOND
        ms == { m \in 0 .. (UPDATES_PER_SECOND - 1) :
                  /\ (m * b) % UPDATES_PER_SECOND = 0
                  /\ r = m * a + ((m * b) \div UPDATES_PER_SECOND) }
    IN  IF ms = {} THEN 0 ELSE UPDATES_PER_SECOND * q + (CHOOSE m \in ms : TRUE)

\* C1: from (0,0), a Vector intent (d, 0) with d > 0 and speed s > 0 such that
\* N = d * UPDATES_PER_SECOND / s is whole has, after N calls of move_from,
\* displacement exactly (0,0), has_arrived true and location exactly (d, 0);
\* has_arrived is false after every earlier call and x never exceeds d.
C1_StraightLineArrival ==
    LET d == intent0.vec.x
        N == TicksToArrive(d, intent0.speed)
    IN  (/\ intent0.kind = "Vector"
         /\ location0 = Vec(0, 0)
         /\ intent0.vec.y = 0
         /\ d > 0
         /\ intent0.speed > 0
         /\ TicksToArrive(d, intent0.speed) > 0)
        => /\ ticks = N => /\ intent.vec = Vec(0, 0)
                           /\ has_arrived(intent, location)
                           /\ location = Vec(d, 0)
           /\ ticks < N => ~has_arrived(intent, location)
           /\ location.x <= d

\* C2: the location one move_from call on a Vector intent returns differs from
\* the call's starting location, on each axis, by at most that axis's
\* remaining absolute displacement at the start of the call.
C2_NoOvershoot ==
    (prev.called /\ prev.intent.kind = "Vector")
    => /\ Abs(location.x - prev.location.x) <= Abs(prev.intent.vec.x)
       /\ Abs(location.y - prev.location.y) <= Abs(prev.intent.vec.y)

\* C3: a Position intent with positive speed, stepped once per tick, reaches
\* after finitely many ticks a location for which has_arrived is true, and
\* from then on the location stays equal to the target.
C3_EventualArrival == <>[](has_arrived(intent, location))

\* C4: for a Vector intent, target_goal of the location a move_from call
\* returns, taken on the intent as the call left it, equals target_goal of
\* the call's starting location taken before the call.
C4_GoalStable ==
    (prev.called /\ prev.intent.kind = "Vector")
    => target_goal(intent, location) = target_goal(prev.intent, prev.location)

\* C5: move_from leaves a Position intent as it was constructed (variant,
\* target, speed), and target_goal on it returns the stored target after any
\* number of move_from calls and for any current_location argument.
C5_PositionIntentUnchanged ==
    intent0.kind = "Position"
    => /\ intent = intent0
       /\ prev.called => prev.intent = intent0
       /\ query.op = "target_goal" => query.result = intent0.vec

\* a Position intent stepped at least twice to a new location, then asked for
\* its goal from a location that is neither the caller's nor the target
C5_Witness ==
    /\ intent0.kind = "Position"
    /\ ticks >= 2
    /\ location # location0
    /\ query.op = "target_goal"
    /\ query.arg # location
    /\ query.arg # intent0.vec
    /\ query.result = intent0.vec

\* C6: has_arrived on a Position intent is true exactly when the argument
\* equals the target on both coordinates, also for arguments within the
\* tolerance of the target; on a Vector intent it is true exactly when both
\* displacement components are zero, whatever the argument and the speed.
C6_HasArrivedExact ==
    query.op = "has_arrived"
    => query.result = (IF intent.kind = "Position"
                       THEN query.arg.x = intent.vec.x /\ query.arg.y = intent.vec.y
                       ELSE intent.vec.x = 0 /\ intent.vec.y = 0)

\* has_arrived answered false for a location within the tolerance of a
\* Position intent's target but not equal to it
C6_Witness ==
    /\ intent.kind = "Position"
    /\ query.op = "has_arrived"
    /\ query.arg # intent.vec
    /\ Abs(query.arg.x - intent.vec.x) < PRECISION
    /\ Abs(query.arg.y - intent.vec.y) < PRECISION
    /\ query.result = FALSE

\* C7: with a speed that is zero or negative, move_from returns the starting
\* location and leaves the displacement of a Vector intent unchanged.
C7_NonPositiveSpeedNoMovement ==
    (prev.called /\ prev.intent.speed <= 0)
    => /\ location = prev.location
       /\ prev.intent.kind = "Vector" => intent.vec = prev.intent.vec

\* what C8 states for one displacement component: old before the call, new
\* after it
Shrinks(old, new) ==
    /\ new = 0 \/ Sgn(new) = Sgn(old)
    /\ Abs(new) <= Abs(old)
    /\ Abs(new) < PRECISION => new = 0
    /\ old = 0 => new = 0

\* C8: a move_from call on a Vector intent with positive speed leaves each
\* displacement component with its sign or zero and with an absolute value no
\* greater than before, leaves the speed unchanged, stores a component whose
\* new absolute value is below PRECISION as zero, and keeps a zero component
\* zero.
C8_MonotoneShrinking ==
    (prev.called /\ prev.intent.kind = "Vector" /\ prev.intent.speed > 0)
    => /\ intent.kind = "Vector"
       /\ intent.speed = prev.intent.speed
       /\ Shrinks(prev.intent.vec.x, intent.vec.x)
       /\ Shrinks(prev.intent.vec.y, intent.vec.y)

\* the second or a later call on a diagonal displacement with negative x, which
\* shortened both components without finishing either
C8_Witness ==
    /\ prev.called
    /\ prev.intent.kind = "Vector"
    /\ prev.intent.speed > 0
    /\ ticks >= 2
    /\ prev.intent.vec.x < 0
    /\ 0 < Abs(intent.vec.x) /\ Abs(intent.vec.x) < Abs(prev.intent.vec.x)
    /\ 0 < Abs(intent.vec.y) /\ Abs(intent.vec.y) < Abs(prev.intent.vec.y)

\* C9: in every state spawn, despawn, insert, remove and get_mut can reach, a
\* get (or get_mut) with an Entity that was despawned returns none, while its
\* index is free and after a later spawn reused the index for an occupant with
\* its own component; an insert with it fails with StaleEntity and leaves the
\* store as it is; and the Entity the next spawn returns has a generation
\* different from every Entity issued before for its index.
C9_StaleNeverAliases ==
    /\ \A e \in despawned, n \in StoreNames :
          /\ get(stores[n], generations, e) = None
          /\ \A value \in Values :
                insert(stores[n], generations, e, value)
                   = [store |-> stores[n], result |-> StaleEntity]
    /\ \A c \in create(generations, free), f \in issued :
          f.index = c.entity.index => f.generation # c.entity.generation

\* a despawned Entity whose component existed before the despawn, its index
\* reused by a later spawn, the new occupant holding components of its own in
\* both stores, and a second despawned Entity whose index is still free
C9_Witness ==
    \E e \in despawned, f \in issued, g \in despawned :
       /\ f.index = e.index
       /\ f.generation # e.generation
       /\ is_live(generations, f)
       /\ \A n \in StoreNames : stores[n][f.index] # None
       /\ g.index \in free

\* the rule C10 states for one coordinate: c is the coordinate before the
\* correction, r the coordinate returned
SnapsToWhole(c, r) ==
    LET whole == round(c)
    IN  /\ Abs(c - whole) < PRECISION => r = whole
        /\ Abs(c - whole) > PRECISION => r = c

\* C10: a coordinate location + signed step that lies within PRECISION of a
\* whole number, above or below it, positive or negative, is returned as that
\* whole number; one farther than PRECISION from every whole number is
\* returned unchanged; on both axes alike.
C10_RoundingCorrection ==
    prev.called => SnapsToWhole(prev.raw.x, location.x) /\ SnapsToWhole(prev.raw.y, location.y)

====
